---- MODULE Spec2Model ----
(***************************************************************************)
(* RecordTaskManager (src/src/blrec/task/task_manager.py): the registry of *)
(* per-room recording jobs and the coroutines that create, control and     *)
(* tear them down.  Every manager operation is a coroutine run in a call   *)
(* slot; a slot's pc names the await it is suspended at, and one step of   *)
(* the model is the code that runs between two awaits of one coroutine.    *)
(***************************************************************************)
EXTENDS Integers, Sequences, FiniteSets, TLC

VARIABLES
    tasks,      \* self._tasks: room id -> job handle (None: no entry)
    job,        \* the RecordTask objects, by handle
    proc        \* the coroutines in flight, one per call slot

vars == <<tasks, job, proc>>

---------------------------------------------------------------------------
(* Bounds *)
NumRooms == 2
NumProcs == 2
MaxHandles == 4
MaxBatch == 2

Rooms == 1..NumRooms
Procs == 1..NumProcs
Handles == 1..MaxHandles
None == 0

---------------------------------------------------------------------------
(* Errors *)
TransientErrors == {"TimeoutError", "ClientError", "ApiRequestError"}
JobErrors == TransientErrors \cup {"JobError"}

---------------------------------------------------------------------------
(* The job handle (RecordTask), an external collaborator *)
UserAgents == {"", "ua"}
Cookies == {"", "ck"}

NewJob ==
    [ready |-> FALSE, monitor |-> FALSE, recorder |-> FALSE, destroyed |-> 0,
     user_agent |-> "", cookie |-> "", session |-> <<"", "">>, config |-> {}]

JobMethods ==
    {"setup", "destroy", "enable_monitor", "disable_monitor", "enable_recorder",
     "disable_recorder", "update_info", "update_session"}

\* The jobs that method m, completing without error, can leave job j as.  setup
\* opens the job's session with the identity the job then has and sets the
\* readiness flag; what destroy does to the flag is the job's own business, so both
\* outcomes are kept.
JobEffect(j, m) ==
    CASE m = "setup"            ->
            {[j EXCEPT !.ready = TRUE, !.session = <<j.user_agent, j.cookie>>]}
      [] m = "destroy"          ->
            LET d == [j EXCEPT !.destroyed = IF @ < 2 THEN @ + 1 ELSE @]
            IN  {d, [d EXCEPT !.ready = FALSE]}
      [] m = "enable_monitor"   -> {[j EXCEPT !.monitor = TRUE]}
      [] m = "disable_monitor"  -> {[j EXCEPT !.monitor = FALSE]}
      [] m = "enable_recorder"  -> {[j EXCEPT !.recorder = TRUE]}
      [] m = "disable_recorder" -> {[j EXCEPT !.recorder = FALSE]}
      [] m = "update_session"   -> {[j EXCEPT !.session = <<j.user_agent, j.cookie>>]}
      [] OTHER                  -> {j}

---------------------------------------------------------------------------
(* Call slots *)
NoSettings ==
    [room_id |-> None, header |-> [user_agent |-> "", cookie |-> ""],
     enable_monitor |-> FALSE, enable_recorder |-> FALSE]

Idle ==
    [op |-> "idle", pc |-> "idle", room |-> None, force |-> FALSE, task |-> None,
     target |-> None, idx |-> 0, settings |-> NoSettings, attempt |-> 0, elapsed |-> 0,
     subs |-> <<>>, ran |-> <<>>, batch |-> <<>>, results |-> <<>>, sink |-> 0,
     trace |-> <<>>, res |-> "", msg |-> ""]

\* One entry of a call's trace: a job-level call being invoked ("call"), returning
\* ("ret") or raising ("raise"), a registry write ("set", "del", "clear"), or a
\* settings bundle being copied onto a job ("apply").  own: the job or registry entry
\* is that of the coroutine's own `task`; arg: the force or update_session argument.
Ev(e, m, own, a) == [e |-> e, m |-> m, own |-> own, arg |-> a, err |-> ""]

EvRaise(m, own, a, err) == [e |-> "raise", m |-> m, own |-> own, arg |-> a, err |-> err]

\* The coroutine has returned (res = "ok") or raised (res = the error).
Finish(q, res, msg) == [q EXCEPT !.pc = "done", !.res = res, !.msg = msg]

\* Handles some registry entry or some coroutine still refers to; the others are
\* garbage, and a collected handle is a fresh object again.
Referenced(t, pr) ==
    ({t[r] : r \in Rooms} \cup {pr[p].task : p \in Procs} \cup {pr[p].target : p \in Procs}
        \cup UNION {{pr[p].subs[k].task : k \in DOMAIN pr[p].subs} : p \in Procs})
    \ {None}

Collect(t, pr, jb) ==
    [h \in Handles |-> IF h \in Referenced(t, pr) THEN jb[h] ELSE NewJob]

Min2(a, b) == IF a < b THEN a ELSE b

\* A state of the manager: the registry, the jobs and the coroutines.
St(t, jb, pr) == [tasks |-> t, job |-> jb, proc |-> pr]

\* Handles are object identities: which number names which job is immaterial.  A
\* state is kept with its jobs numbered in the order of the rooms they are
\* registered for, then the jobs only coroutines refer to, then the unused ones.
Renaming(t, pr) ==
    LET reg == {t[r] : r \in Rooms} \ {None}
        oth == Referenced(t, pr) \ reg
        roomOf(h) == CHOOSE r \in Rooms : t[r] = h
        below(X, h) == Cardinality({g \in X : g <= h})
    IN  [h \in Handles \cup {None} |->
            IF h = None THEN None
            ELSE IF h \in reg
                 THEN Cardinality({r \in Rooms : t[r] # None /\ r <= roomOf(h)})
            ELSE IF h \in oth THEN Cardinality(reg) + below(oth, h)
            ELSE Cardinality(reg) + Cardinality(oth)
                    + below(Handles \ (reg \cup oth), h)]

Renamed(q, f) ==
    [q EXCEPT !.task = f[@], !.target = f[@],
              !.subs = [k \in DOMAIN q.subs |-> [q.subs[k] EXCEPT !.task = f[@]]]]

Commit(s) ==
    LET f == Renaming(s.tasks, s.proc)
        jb == Collect(s.tasks, s.proc, s.job)
    IN  /\ tasks' = [r \in Rooms |-> f[s.tasks[r]]]
        /\ proc' = [p \in Procs |-> Renamed(s.proc[p], f)]
        /\ job' = [g \in Handles |-> jb[CHOOSE h \in Handles : f[h] = g]]

Unused(s) == Handles \ Referenced(s.tasks, s.proc)

---------------------------------------------------------------------------
(* Registry lookup *)
MsgNoTask == "no task for the room"
MsgNotReady == "the task is not ready yet"

\* A faulty lookup: the readiness of the job is never looked at.
_get_task_unchecked(room_id, check_ready) ==
    IF tasks[room_id] = None
    THEN [task |-> None, err |-> "NotFoundError", msg |-> MsgNoTask]
    ELSE [task |-> tasks[room_id], err |-> "", msg |-> ""]

_get_task(room_id, check_ready) ==
    IF tasks[room_id] = None
    THEN [task |-> None, err |-> "NotFoundError", msg |-> MsgNoTask]
    ELSE IF check_ready /\ ~job[tasks[room_id]].ready
         THEN [task |-> None, err |-> "NotFoundError", msg |-> MsgNotReady]
         ELSE [task |-> tasks[room_id], err |-> "", msg |-> ""]

has_task_value(room_id) == tasks[room_id] # None

---------------------------------------------------------------------------
(* Single-room operations on a ready job: a readiness-gated lookup, then the
   job-level calls of the operation, each awaited before the next is made. *)

\* A job-level call: the method and the force argument it is passed.
JC(m, f) == [m |-> m, force |-> f]

\* A faulty removal: the job is destroyed before its recorder and monitor are disabled.
remove_task_calls_destroy_first(force) ==
    <<JC("destroy", FALSE), JC("disable_recorder", TRUE), JC("disable_monitor", FALSE)>>

remove_task_calls(force) ==
    <<JC("disable_recorder", TRUE), JC("disable_monitor", FALSE), JC("destroy", FALSE)>>

\* A faulty start: the monitor is enabled before the info is refreshed.
start_task_calls_monitor_first(force) ==
    <<JC("enable_monitor", FALSE), JC("update_info", FALSE), JC("enable_recorder", FALSE)>>

start_task_calls(force) ==
    <<JC("update_info", FALSE), JC("enable_monitor", FALSE), JC("enable_recorder", FALSE)>>

stop_task_calls(force) ==
    <<JC("disable_recorder", force), JC("disable_monitor", FALSE)>>

enable_task_monitor_calls(force) == <<JC("enable_monitor", FALSE)>>

disable_task_monitor_calls(force) == <<JC("disable_monitor", FALSE)>>

enable_task_recorder_calls(force) == <<JC("enable_recorder", FALSE)>>

disable_task_recorder_calls(force) == <<JC("disable_recorder", force)>>

update_task_info_calls(force) == <<JC("update_info", FALSE)>>

\* A faulty deletion: the entry is left in the registry.
DelTask_keeps(t, room_id) == [tasks |-> t, err |-> ""]

\* The registry after `del self._tasks[room_id]`, and the KeyError it raises when the
\* room has no entry.
DelTask(t, room_id) ==
    IF t[room_id] = None
    THEN [tasks |-> t, err |-> "KeyError"]
    ELSE [tasks |-> [t EXCEPT ![room_id] = None], err |-> ""]

\* The call is made: the coroutine runs from its start to its first await.
Invoke(p, op, calls, r, f) ==
    /\ proc[p].op = "idle"
    /\ LET g == _get_task(r, TRUE)
           q == [Idle EXCEPT !.op = op, !.room = r, !.force = f]
       IN  proc' = [proc EXCEPT ![p] =
                IF g.err # ""
                THEN Finish(q, g.err, g.msg)
                ELSE [q EXCEPT !.pc = calls[1].m, !.idx = 1, !.task = g.task,
                               !.trace = <<Ev("call", calls[1].m, TRUE, calls[1].force)>>]]
    /\ UNCHANGED <<tasks, job>>

\* The awaited job-level call completes; the coroutine runs on to its next await or
\* to its end.  del_after: the operation ends by deleting the room's registry entry.
Resume(p, op, calls, del_after, E) ==
    /\ proc[p].op = op
    /\ proc[p].pc \notin {"idle", "done"}
    /\ LET q == proc[p]
           c == calls[q.idx]
       IN  \E o \in {"ok"} \cup E :
             IF o # "ok"
             THEN /\ proc' = [proc EXCEPT ![p] =
                        Finish([q EXCEPT !.trace = Append(@, EvRaise(c.m, TRUE, c.force, o))],
                               o, "")]
                  /\ UNCHANGED <<tasks, job>>
             ELSE \E j2 \in JobEffect(job[q.task], c.m) :
                    LET tr == Append(q.trace, Ev("ret", c.m, TRUE, c.force)) IN
                    IF q.idx < Len(calls)
                    THEN LET n == calls[q.idx + 1] IN
                         /\ proc' = [proc EXCEPT ![p] =
                               [q EXCEPT !.idx = @ + 1, !.pc = n.m,
                                         !.trace = Append(tr, Ev("call", n.m, TRUE, n.force))]]
                         /\ job' = [job EXCEPT ![q.task] = j2]
                         /\ UNCHANGED tasks
                    ELSE LET d == IF del_after THEN DelTask(tasks, q.room)
                                  ELSE [tasks |-> tasks, err |-> ""]
                             q2 == IF d.err # ""
                                   THEN Finish([q EXCEPT !.trace = tr], d.err, "")
                                   ELSE Finish([q EXCEPT !.trace =
                                            IF del_after
                                            THEN Append(tr, Ev("del", "registry", tasks[q.room] = q.task, FALSE))
                                            ELSE tr], "ok", "")
                         IN  Commit(St(d.tasks, [job EXCEPT ![q.task] = j2],
                                       [proc EXCEPT ![p] = q2]))

remove_task(p, R, E) ==
    \/ \E r \in R : Invoke(p, "remove_task", remove_task_calls(FALSE), r, FALSE)
    \/ Resume(p, "remove_task", remove_task_calls(FALSE), TRUE, E)

start_task(p, R, E) ==
    \/ \E r \in R : Invoke(p, "start_task", start_task_calls(FALSE), r, FALSE)
    \/ Resume(p, "start_task", start_task_calls(FALSE), FALSE, E)

stop_task(p, R, E) ==
    \/ \E r \in R, f \in BOOLEAN : Invoke(p, "stop_task", stop_task_calls(f), r, f)
    \/ Resume(p, "stop_task", stop_task_calls(proc[p].force), FALSE, E)

enable_task_monitor(p, R, E) ==
    \/ \E r \in R :
          Invoke(p, "enable_task_monitor", enable_task_monitor_calls(FALSE), r, FALSE)
    \/ Resume(p, "enable_task_monitor", enable_task_monitor_calls(FALSE), FALSE, E)

disable_task_monitor(p, R, E) ==
    \/ \E r \in R :
          Invoke(p, "disable_task_monitor", disable_task_monitor_calls(FALSE), r, FALSE)
    \/ Resume(p, "disable_task_monitor", disable_task_monitor_calls(FALSE), FALSE, E)

enable_task_recorder(p, R, E) ==
    \/ \E r \in R :
          Invoke(p, "enable_task_recorder", enable_task_recorder_calls(FALSE), r, FALSE)
    \/ Resume(p, "enable_task_recorder", enable_task_recorder_calls(FALSE), FALSE, E)

disable_task_recorder(p, R, E) ==
    \/ \E r \in R, f \in BOOLEAN :
          Invoke(p, "disable_task_recorder", disable_task_recorder_calls(f), r, f)
    \/ Resume(p, "disable_task_recorder", disable_task_recorder_calls(proc[p].force), FALSE, E)

update_task_info(p, R, E) ==
    \/ \E r \in R : Invoke(p, "update_task_info", update_task_info_calls(FALSE), r, FALSE)
    \/ Resume(p, "update_task_info", update_task_info_calls(FALSE), FALSE, E)

---------------------------------------------------------------------------
(* Settings *)
HeaderSettings == [user_agent : UserAgents, cookie : Cookies]

\* The header bundles task settings are created with.
CreationHeaders == {[user_agent |-> "", cookie |-> ""], [user_agent |-> "ua", cookie |-> "ck"]}

TaskSettings ==
    [room_id : Rooms, header : CreationHeaders,
     enable_monitor : BOOLEAN, enable_recorder : BOOLEAN]

Bundles == <<"output", "danmaku", "recorder", "postprocessing">>

\* Faulty header updates: the fields are written and the session refreshed without
\* the comparison with the job's current values; the session is refreshed whatever
\* update_session says.
ApplyHeader_unconditional(jb, room_id, hs, update_session) ==
    LET g == _get_task(room_id, FALSE) IN
    IF g.err # ""
    THEN [err |-> g.err, msg |-> g.msg, job |-> jb, task |-> None, refresh |-> FALSE]
    ELSE [err |-> "", msg |-> "",
          job |-> [jb EXCEPT ![g.task].user_agent = hs.user_agent,
                             ![g.task].cookie = hs.cookie],
          task |-> g.task, refresh |-> update_session]

ApplyHeader_refresh(jb, room_id, hs, update_session) ==
    LET g == _get_task(room_id, FALSE) IN
    IF g.err # ""
    THEN [err |-> g.err, msg |-> g.msg, job |-> jb, task |-> None, refresh |-> FALSE]
    ELSE IF jb[g.task].user_agent = hs.user_agent /\ jb[g.task].cookie = hs.cookie
         THEN [err |-> "", msg |-> "", job |-> jb, task |-> g.task, refresh |-> FALSE]
         ELSE [err |-> "", msg |-> "",
               job |-> [jb EXCEPT ![g.task].user_agent = hs.user_agent,
                                  ![g.task].cookie = hs.cookie],
               task |-> g.task, refresh |-> TRUE]

\* apply_task_header_settings up to its await: the jobs after the fields are
\* written, and whether update_session is then awaited on the job.
ApplyHeader(jb, room_id, hs, update_session) ==
    LET g == _get_task(room_id, FALSE) IN
    IF g.err # ""
    THEN [err |-> g.err, msg |-> g.msg, job |-> jb, task |-> None, refresh |-> FALSE]
    ELSE IF jb[g.task].user_agent = hs.user_agent /\ jb[g.task].cookie = hs.cookie
         THEN [err |-> "", msg |-> "", job |-> jb, task |-> g.task, refresh |-> FALSE]
         ELSE [err |-> "", msg |-> "",
               job |-> [jb EXCEPT ![g.task].user_agent = hs.user_agent,
                                  ![g.task].cookie = hs.cookie],
               task |-> g.task, refresh |-> update_session]

\* apply_task_header_settings called by a user of the manager, with a header bundle
\* of H and an update_session of U (kept in the slot's force field): the lookup, the
\* comparison and the writes run at the call, update_session is awaited after them.
apply_task_header_settings(p, R, H, U, E) ==
    \/ /\ proc[p].op = "idle"
       /\ \E r \in R, hs \in H, us \in U :
            LET a == ApplyHeader(job, r, hs, us)
                q == [Idle EXCEPT !.op = "apply_task_header_settings", !.room = r,
                                  !.force = us,
                                  !.settings = [NoSettings EXCEPT !.room_id = r,
                                                                  !.header = hs]]
            IN  /\ job' = a.job
                /\ proc' = [proc EXCEPT ![p] =
                      IF a.err # "" THEN Finish(q, a.err, a.msg)
                      ELSE IF a.refresh
                      THEN [q EXCEPT !.pc = "update_session", !.task = a.task,
                                     !.trace = <<Ev("call", "update_session", TRUE, FALSE)>>]
                      ELSE Finish([q EXCEPT !.task = a.task], "ok", "")]
       /\ UNCHANGED tasks
    \/ /\ proc[p].op = "apply_task_header_settings"
       /\ proc[p].pc = "update_session"
       /\ \E o \in {"ok"} \cup E :
            IF o # "ok"
            THEN /\ proc' = [proc EXCEPT ![p] =
                       Finish([@ EXCEPT !.trace =
                                  Append(@, EvRaise("update_session", TRUE, FALSE, o))],
                              o, "")]
                 /\ UNCHANGED job
            ELSE \E j2 \in JobEffect(job[proc[p].task], "update_session") :
                 /\ job' = [job EXCEPT ![proc[p].task] = j2]
                 /\ proc' = [proc EXCEPT ![p] =
                       Finish([@ EXCEPT !.trace =
                                  Append(@, Ev("ret", "update_session", TRUE, FALSE))],
                              "ok", "")]
       /\ UNCHANGED tasks

\* apply_task_output_settings, .._danmaku_.., .._recorder_.., .._postprocessing_..:
\* the bundle's fields are copied onto the registered job.
ApplyBundle(jb, room_id, b) ==
    LET g == _get_task(room_id, FALSE) IN
    IF g.err # ""
    THEN [err |-> g.err, msg |-> g.msg, job |-> jb, task |-> None]
    ELSE [err |-> "", msg |-> "",
          job |-> [jb EXCEPT ![g.task].config = @ \cup {b}], task |-> g.task]

\* The first n bundles applied in order, stopping at the first error.
RECURSIVE ApplyBundles(_, _, _, _, _)
ApplyBundles(jb, room_id, n, tr, own) ==
    IF n = 0 THEN [err |-> "", msg |-> "", job |-> jb, trace |-> tr]
    ELSE LET a == ApplyBundles(jb, room_id, n - 1, tr, own) IN
         IF a.err # "" THEN a
         ELSE LET b == ApplyBundle(a.job, room_id, Bundles[n]) IN
              IF b.err # ""
              THEN [err |-> b.err, msg |-> b.msg, job |-> a.job, trace |-> a.trace]
              ELSE [err |-> "", msg |-> "", job |-> b.job,
                    trace |-> Append(a.trace, Ev("apply", Bundles[n], b.task = own, FALSE))]

---------------------------------------------------------------------------
(* add_task and its retry policy *)
StopAfterDelay == 60
WaitMax == 10
SlowAttempt == 25

\* How long one attempt may have taken when it fails.
AttemptTimes == {0, SlowAttempt}

\* Faulty retry conditions: only timeouts are retried; every error is retried.
Retryable_timeout_only(e) == e = "TimeoutError"

Retryable_any(e) == TRUE

\* retry_if_exception_type((asyncio.TimeoutError, aiohttp.ClientError, ApiRequestError))
Retryable(e) == e \in TransientErrors

\* wait_exponential(max=10): the wait after the n-th failed attempt.
WaitExponential(n) == Min2(2 ^ (n - 1), WaitMax)

\* reraise=True: when the policy gives up, the last error is raised as it is.
Reraise(e) == e

\* A faulty stop condition: the policy gives up at twice the delay.
StopNow_late(elapsed) == elapsed >= 2 * StopAfterDelay

\* stop_after_delay(60), asked when an attempt has failed.
StopNow(elapsed) == elapsed >= StopAfterDelay

\* Faulty enabling: both calls are made whatever the settings say.
EnableCalls_always(settings) == <<"enable_monitor", "enable_recorder">>

\* The monitor and recorder flags of the settings decide the calls that follow the
\* four bundles: enable_monitor, then enable_recorder.
EnableCalls(settings) ==
    (IF settings.enable_monitor THEN <<"enable_monitor">> ELSE <<>>)
        \o (IF settings.enable_recorder THEN <<"enable_recorder">> ELSE <<>>)

\* One attempt of add_task from its start to its first await: the job is built and
\* registered, and the header settings are handed to the settings manager.
StartAttempt(s, p) ==
    LET q == s.proc[p]
        r == q.settings.room_id
        h == CHOOSE x \in Unused(s) : \A y \in Unused(s) : x <= y
        q2 == [q EXCEPT !.pc = "apply_task_header_settings", !.task = h, !.room = r,
                        !.attempt = @ + 1,
                        !.trace = <<Ev("set", "registry", TRUE, FALSE),
                                    Ev("call", "apply_task_header_settings", TRUE, FALSE)>>]
    IN  St([s.tasks EXCEPT ![r] = h], [s.job EXCEPT ![h] = NewJob],
           [s.proc EXCEPT ![p] = q2])

\* A faulty load_all_tasks: the error of an entry is not caught, and ends the loop.
Complete_abort(s, p, res) ==
    LET q == s.proc[p] IN
    IF q.op = "add_task" \/ res # "ok"
    THEN St(s.tasks, s.job, [s.proc EXCEPT ![p] = Finish(q, res, "")])
    ELSE LET q2 == [q EXCEPT !.results = Append(@, res), !.task = None] IN
         IF Len(q2.results) = Len(q2.batch)
         THEN St(s.tasks, s.job, [s.proc EXCEPT ![p] = Finish(q2, "ok", "")])
         ELSE StartAttempt(
                St(s.tasks, s.job,
                   [s.proc EXCEPT ![p] =
                      [q2 EXCEPT !.settings = q2.batch[Len(q2.results) + 1],
                                 !.attempt = 0, !.elapsed = 0]]), p)

\* add_task has returned or raised res.  Called by load_all_tasks, its error goes to
\* submit_exception and the next settings of the list are taken.
Complete(s, p, res) ==
    LET q == s.proc[p] IN
    IF q.op = "add_task"
    THEN St(s.tasks, s.job, [s.proc EXCEPT ![p] = Finish(q, res, "")])
    ELSE LET q2 == [q EXCEPT !.results = Append(@, res),
                             !.sink = IF res = "ok" THEN @ ELSE @ + 1,
                             !.task = None]
             s2 == St(s.tasks, s.job, [s.proc EXCEPT ![p] = q2])
         IN  IF Len(q2.results) = Len(q2.batch)
             THEN St(s.tasks, s.job, [s.proc EXCEPT ![p] = Finish(q2, "ok", "")])
             ELSE StartAttempt(
                    St(s.tasks, s.job,
                       [s.proc EXCEPT ![p] =
                          [q2 EXCEPT !.settings = q2.batch[Len(q2.results) + 1],
                                     !.attempt = 0, !.elapsed = 0]]), p)

\* The except clause of add_task and the retry policy around it: the room's entry is
\* deleted and the error re-raised; the policy then sleeps and retries, or gives up.
Except(s, p, e, dt) ==
    LET q == s.proc[p]
        d == DelTask(s.tasks, q.room)
        err == IF d.err # "" THEN d.err ELSE e
        el == Min2(q.elapsed + dt, 2 * StopAfterDelay)
        q2 == [q EXCEPT !.task = None, !.elapsed = el,
                        !.trace = IF d.err # "" THEN @
                                  ELSE Append(@, Ev("del", "registry", s.tasks[q.room] = q.task, FALSE))]
        s2 == St(d.tasks, s.job, [s.proc EXCEPT ![p] = q2])
    IN  IF ~Retryable(err) THEN Complete(s2, p, err)
        ELSE IF StopNow(el) THEN Complete(s2, p, Reraise(err))
        ELSE St(d.tasks, s.job, [s.proc EXCEPT ![p] = [q2 EXCEPT !.pc = "sleep"]])

\* After setup: the four bundles, then the first of the enable calls, if any.
AfterSetup(s, p, dt) ==
    LET q == s.proc[p]
        a == ApplyBundles(s.job, q.room, Len(Bundles), q.trace, q.task)
        s2 == St(s.tasks, a.job, [s.proc EXCEPT ![p] = [q EXCEPT !.trace = a.trace]])
        en == EnableCalls(q.settings)
    IN  IF a.err # "" THEN Except(s2, p, a.err, dt)
        ELSE IF en = <<>> THEN Complete(s2, p, "ok")
        ELSE St(s.tasks, a.job,
                [s.proc EXCEPT ![p] =
                    [q EXCEPT !.pc = en[1],
                              !.trace = Append(a.trace, Ev("call", en[1], TRUE, FALSE))]])

\* The settings manager has handed the header settings to
\* apply_task_header_settings(update_session = False); then setup is awaited.
AfterHeaderCall(s, p, dt, update_session) ==
    LET q == s.proc[p]
        a == ApplyHeader(s.job, q.room, q.settings.header, update_session)
    IN  IF a.err # "" THEN Except(s, p, a.err, dt)
        ELSE IF a.refresh
        THEN St(s.tasks, a.job,
                [s.proc EXCEPT ![p] =
                    [q EXCEPT !.pc = "update_session", !.target = a.task,
                              !.trace = Append(@, Ev("call", "update_session", a.task = q.task, FALSE))]])
        ELSE St(s.tasks, a.job,
                [s.proc EXCEPT ![p] =
                    [q EXCEPT !.pc = "setup",
                              !.trace = @ \o <<Ev("ret", "apply_task_header_settings",
                                                  a.task = q.task, update_session),
                                               Ev("call", "setup", TRUE, FALSE)>>]])

\* The awaited call of an attempt completes with outcome o, the attempt having taken
\* dt so far if it fails here; the coroutine runs on to its next await or its end.
AddTaskStep(s, p, o, dt, j2) ==
    LET q == s.proc[p]
        raised == St(s.tasks, s.job,
                     [s.proc EXCEPT ![p] =
                        [q EXCEPT !.target = None,
                                  !.trace = Append(@, EvRaise(q.pc, q.trace[Len(q.trace)].own, FALSE, o))]])
        jb == [s.job EXCEPT ![q.task] = j2]
        ret == [q EXCEPT !.trace = Append(@, Ev("ret", q.pc, TRUE, FALSE))]
    IN  CASE q.pc = "apply_task_header_settings" ->
                AfterHeaderCall(s, p, dt, FALSE)
          [] q.pc = "update_session" ->
                IF o # "ok" THEN Except(raised, p, o, dt)
                ELSE St(s.tasks,
                        [s.job EXCEPT ![q.target].session =
                            <<s.job[q.target].user_agent, s.job[q.target].cookie>>],
                        [s.proc EXCEPT ![p] =
                            [q EXCEPT !.pc = "setup", !.target = None,
                                      !.trace = @ \o
                                          <<Ev("ret", "update_session", q.target = q.task, FALSE),
                                            Ev("ret", "apply_task_header_settings",
                                               q.target = q.task, TRUE),
                                            Ev("call", "setup", TRUE, FALSE)>>]])
          [] q.pc = "setup" ->
                IF o # "ok" THEN Except(raised, p, o, dt)
                ELSE AfterSetup(St(s.tasks, jb, [s.proc EXCEPT ![p] = ret]), p, dt)
          [] q.pc = "enable_monitor" ->
                IF o # "ok" THEN Except(raised, p, o, dt)
                ELSE IF q.settings.enable_recorder
                THEN St(s.tasks, jb,
                        [s.proc EXCEPT ![p] =
                            [ret EXCEPT !.pc = "enable_recorder",
                                        !.trace = Append(@, Ev("call", "enable_recorder", TRUE, FALSE))]])
                ELSE Complete(St(s.tasks, jb, [s.proc EXCEPT ![p] = ret]), p, "ok")
          [] q.pc = "enable_recorder" ->
                IF o # "ok" THEN Except(raised, p, o, dt)
                ELSE Complete(St(s.tasks, jb, [s.proc EXCEPT ![p] = ret]), p, "ok")
          [] q.pc = "sleep" ->
                StartAttempt(
                    St(s.tasks, s.job,
                       [s.proc EXCEPT ![p] =
                          [q EXCEPT !.elapsed = Min2(@ + WaitExponential(q.attempt),
                                                     2 * StopAfterDelay)]]), p)

Now == St(tasks, job, proc)

\* The steps of an add_task in flight, for add_task itself and for load_all_tasks.
AddTaskResume(p, T, E) ==
    /\ proc[p].op \in {"add_task", "load_all_tasks"}
    /\ proc[p].pc \notin {"idle", "done"}
    /\ LET q == proc[p] IN
       \/ /\ q.pc \in {"apply_task_header_settings", "sleep"}
          /\ Unused(Now) # {}
          /\ \E dt \in T : Commit(AddTaskStep(Now, p, "ok", dt, NewJob))
       \/ /\ q.pc \in JobMethods
          /\ Unused(Now) # {}
          /\ \E o \in {"ok"} \cup E, dt \in T :
               \E j2 \in JobEffect(job[q.task], q.pc) :
                  Commit(AddTaskStep(Now, p, o, dt, j2))

add_task(p, S, T, E) ==
    \/ /\ proc[p].op = "idle"
       /\ Unused(Now) # {}
       /\ \E settings \in S :
            Commit(StartAttempt(
                St(tasks, job,
                   [proc EXCEPT ![p] = [Idle EXCEPT !.op = "add_task",
                                                    !.settings = settings]]), p))
    \/ proc[p].op = "add_task" /\ AddTaskResume(p, T, E)

\* The settings lists load_all_tasks can be given: up to n entries drawn from S, one
\* entry per room.
DistinctRooms(b) == \A i, k \in 1..Len(b) : i # k => b[i].room_id # b[k].room_id

RECURSIVE Batches(_, _)
Batches(S, n) ==
    IF n = 0 THEN {<<>>}
    ELSE Batches(S, n - 1) \cup
         {x \in {Append(b, e) : b \in {y \in Batches(S, n - 1) : Len(y) = n - 1}, e \in S} :
            DistinctRooms(x)}

load_all_tasks(p, B, T, E) ==
    \/ /\ proc[p].op = "idle"
       /\ Unused(Now) # {}
       /\ \E b \in B :
            LET q == [Idle EXCEPT !.op = "load_all_tasks", !.batch = b] IN
            IF b = <<>>
            THEN Commit(St(tasks, job, [proc EXCEPT ![p] = Finish(q, "ok", "")]))
            ELSE Commit(StartAttempt(
                    St(tasks, job, [proc EXCEPT ![p] = [q EXCEPT !.settings = b[1]]]), p))
    \/ proc[p].op = "load_all_tasks" /\ AddTaskResume(p, T, E)

---------------------------------------------------------------------------
(* Synchronous operations *)
has_task(p, R) ==
    /\ proc[p].op = "idle"
    /\ \E r \in R :
         proc' = [proc EXCEPT ![p] =
            Finish([Idle EXCEPT !.op = "has_task", !.room = r],
                   IF has_task_value(r) THEN "True" ELSE "False", "")]
    /\ UNCHANGED <<tasks, job>>

\* A readiness-gated read of a job: the lookup, then the value is taken from the job.
Query(p, op, r, m) ==
    /\ proc[p].op = "idle"
    /\ LET g == _get_task(r, TRUE)
           q == [Idle EXCEPT !.op = op, !.room = r]
       IN  proc' = [proc EXCEPT ![p] =
              IF g.err # "" THEN Finish(q, g.err, g.msg)
              ELSE Finish([q EXCEPT !.task = g.task,
                                    !.trace = IF m = "" THEN <<>>
                                              ELSE <<Ev("call", m, TRUE, FALSE),
                                                     Ev("ret", m, TRUE, FALSE)>>],
                          "ok", "")]
    /\ UNCHANGED <<tasks, job>>

get_task_data(p, R) == \E r \in R : Query(p, "get_task_data", r, "")

get_task_param(p, R) == \E r \in R : Query(p, "get_task_param", r, "")

get_task_metadata(p, R) == \E r \in R : Query(p, "get_task_metadata", r, "")

get_task_stream_profile(p, R) == \E r \in R : Query(p, "get_task_stream_profile", r, "")

can_cut_stream(p, R) == \E r \in R : Query(p, "can_cut_stream", r, "can_cut_stream")

cut_stream(p, R) == \E r \in R : Query(p, "cut_stream", r, "cut_stream")

---------------------------------------------------------------------------
(* Bulk operations: one unit per ready job, joined by asyncio.wait *)

\* A faulty selection: the readiness of the jobs is not looked at.
ReadyRooms_all(t, jb) == {r \in Rooms : t[r] # None}

\* The rooms of `[t for t in self._tasks.values() if t.ready]`.
ReadyRooms(t, jb) == {r \in Rooms : t[r] # None /\ jb[t[r]].ready}

\* The units of a fan-out, none scheduled yet.  A unit is "pending", then at the
\* await named by its pc, then "done" (returned) or "failed" (raised); did lists the
\* job-level calls it has completed.
Units(rooms, withTask) ==
    [r \in rooms |->
        [pc |-> "pending", task |-> IF withTask THEN tasks[r] ELSE None, did |-> <<>>]]

\* A faulty join: the wait returns when the first unit is over.
AllDone_first(subs) == \E k \in DOMAIN subs : subs[k].pc \in {"done", "failed"}

Over(u) == u.pc \in {"done", "failed"}

AllDone(subs) == \A k \in DOMAIN subs : Over(subs[k])

\* The steps of a bulk operation, each a job-level call fanned out over the ready jobs.
start_all_tasks_steps(force) ==
    <<JC("update_info", FALSE), JC("enable_monitor", FALSE), JC("enable_recorder", FALSE)>>

stop_all_tasks_steps(force) ==
    <<JC("disable_recorder", force), JC("disable_monitor", FALSE)>>

enable_all_task_monitors_steps(force) == <<JC("enable_monitor", FALSE)>>

disable_all_task_monitors_steps(force) == <<JC("disable_monitor", FALSE)>>

enable_all_task_recorders_steps(force) == <<JC("enable_recorder", FALSE)>>

disable_all_task_recorders_steps(force) == <<JC("disable_recorder", force)>>

update_all_task_infos_steps(force) == <<JC("update_info", FALSE)>>

\* One fan-out, as the operation's record of what it ran.
Ran(c, keys) == [m |-> c.m, force |-> c.force, over |-> keys]

\* A faulty join: the error of a unit is raised to the caller of the operation.
RECURSIVE BulkFrom_raise(_, _, _)
BulkFrom_raise(q, steps, i) ==
    IF \E k \in DOMAIN q.subs : q.subs[k].pc = "failed" THEN Finish(q, "JobError", "")
    ELSE IF i > Len(steps) THEN Finish([q EXCEPT !.idx = 0], "ok", "")
    ELSE LET ready == {r \in Rooms : tasks[r] # None /\ job[tasks[r]].ready} IN
         IF ready = {} THEN BulkFrom_raise([q EXCEPT !.subs = <<>>], steps, i + 1)
         ELSE [q EXCEPT !.pc = steps[i].m, !.idx = i,
                        !.subs = [r \in ready |-> [pc |-> "pending", task |-> tasks[r],
                                                   did |-> <<>>]],
                        !.ran = Append(@, [m |-> steps[i].m, force |-> steps[i].force,
                                           over |-> ready])]

\* From step i on: `coros = [...]; if coros: await asyncio.wait(coros)`.  The first
\* step that finds a ready job is fanned out; with none left the operation returns.
RECURSIVE BulkFrom(_, _, _)
BulkFrom(q, steps, i) ==
    IF i > Len(steps) THEN Finish([q EXCEPT !.idx = 0], "ok", "")
    ELSE LET ready == ReadyRooms(tasks, job) IN
         IF ready = {} THEN BulkFrom([q EXCEPT !.subs = <<>>], steps, i + 1)
         ELSE [q EXCEPT !.pc = steps[i].m, !.idx = i, !.subs = Units(ready, TRUE),
                        !.ran = Append(@, Ran(steps[i], ready))]

BulkInvoke(p, op, steps, f) ==
    /\ proc[p].op = "idle"
    /\ proc' = [proc EXCEPT ![p] =
                  BulkFrom([Idle EXCEPT !.op = op, !.force = f], steps, 1)]
    /\ UNCHANGED <<tasks, job>>

\* A unit of the fan-out is scheduled: its job-level call is made.
BulkUnitStart(p, op, steps) ==
    /\ proc[p].op = op
    /\ proc[p].pc \notin {"idle", "done"}
    /\ \E k \in DOMAIN proc[p].subs :
          /\ proc[p].subs[k].pc = "pending"
          /\ proc' = [proc EXCEPT ![p].subs[k].pc = steps[proc[p].idx].m]
    /\ UNCHANGED <<tasks, job>>

\* A unit's job-level call completes; asyncio.wait keeps a unit's error to itself.
BulkUnitFinish(p, op, steps) ==
    /\ proc[p].op = op
    /\ proc[p].pc \notin {"idle", "done"}
    /\ LET c == steps[proc[p].idx] IN
       \E k \in DOMAIN proc[p].subs :
          /\ proc[p].subs[k].pc = c.m
          /\ \E o \in {"ok", "JobError"} :
               IF o # "ok"
               THEN /\ proc' = [proc EXCEPT ![p].subs[k].pc = "failed"]
                    /\ UNCHANGED job
               ELSE \E j2 \in JobEffect(job[proc[p].subs[k].task], c.m) :
                    /\ proc' = [proc EXCEPT ![p].subs[k].pc = "done",
                                            ![p].subs[k].did = Append(@, c)]
                    /\ job' = [job EXCEPT ![proc[p].subs[k].task] = j2]
    /\ UNCHANGED tasks

\* All units are over: asyncio.wait returns and the operation goes on.
BulkJoin(p, op, steps) ==
    /\ proc[p].op = op
    /\ proc[p].pc \notin {"idle", "done"}
    /\ AllDone(proc[p].subs)
    /\ Commit(St(tasks, job,
                 [proc EXCEPT ![p] = BulkFrom(proc[p], steps, proc[p].idx + 1)]))

Bulk(p, op, steps) ==
    \/ BulkUnitStart(p, op, steps)
    \/ BulkUnitFinish(p, op, steps)
    \/ BulkJoin(p, op, steps)

start_all_tasks(p) ==
    \/ BulkInvoke(p, "start_all_tasks", start_all_tasks_steps(FALSE), FALSE)
    \/ Bulk(p, "start_all_tasks", start_all_tasks_steps(FALSE))

stop_all_tasks(p) ==
    \/ \E f \in BOOLEAN : BulkInvoke(p, "stop_all_tasks", stop_all_tasks_steps(f), f)
    \/ Bulk(p, "stop_all_tasks", stop_all_tasks_steps(proc[p].force))

enable_all_task_monitors(p) ==
    \/ BulkInvoke(p, "enable_all_task_monitors", enable_all_task_monitors_steps(FALSE), FALSE)
    \/ Bulk(p, "enable_all_task_monitors", enable_all_task_monitors_steps(FALSE))

disable_all_task_monitors(p) ==
    \/ BulkInvoke(p, "disable_all_task_monitors", disable_all_task_monitors_steps(FALSE), FALSE)
    \/ Bulk(p, "disable_all_task_monitors", disable_all_task_monitors_steps(FALSE))

enable_all_task_recorders(p) ==
    \/ BulkInvoke(p, "enable_all_task_recorders", enable_all_task_recorders_steps(FALSE), FALSE)
    \/ Bulk(p, "enable_all_task_recorders", enable_all_task_recorders_steps(FALSE))

disable_all_task_recorders(p) ==
    \/ \E f \in BOOLEAN :
          BulkInvoke(p, "disable_all_task_recorders", disable_all_task_recorders_steps(f), f)
    \/ Bulk(p, "disable_all_task_recorders", disable_all_task_recorders_steps(proc[p].force))

update_all_task_infos(p) ==
    \/ BulkInvoke(p, "update_all_task_infos", update_all_task_infos_steps(FALSE), FALSE)
    \/ Bulk(p, "update_all_task_infos", update_all_task_infos_steps(FALSE))

---------------------------------------------------------------------------
(* destroy_all_tasks *)
destroy_all_tasks_steps(force) == <<JC("destroy", FALSE)>>

\* asyncio.wait raises ValueError when it is given no coroutine at all.
AsyncioWait(q, c, keys, withTask) ==
    IF keys = {} THEN Finish(q, "ValueError", "")
    ELSE [q EXCEPT !.pc = c.m, !.idx = 1, !.subs = Units(keys, withTask),
                   !.ran = Append(@, Ran(c, keys))]

destroy_all_tasks(p) ==
    \/ /\ proc[p].op = "idle"
       /\ LET q == [Idle EXCEPT !.op = "destroy_all_tasks"] IN
          proc' = [proc EXCEPT ![p] =
             IF \A r \in Rooms : tasks[r] = None
             THEN Finish(q, "ok", "")
             ELSE AsyncioWait(q, destroy_all_tasks_steps(FALSE)[1],
                              ReadyRooms(tasks, job), TRUE)]
       /\ UNCHANGED <<tasks, job>>
    \/ BulkUnitStart(p, "destroy_all_tasks", destroy_all_tasks_steps(FALSE))
    \/ BulkUnitFinish(p, "destroy_all_tasks", destroy_all_tasks_steps(FALSE))
    \/ /\ proc[p].op = "destroy_all_tasks"
       /\ proc[p].pc \notin {"idle", "done"}
       /\ AllDone(proc[p].subs)
       /\ Commit(St([r \in Rooms |-> None], job,
                    [proc EXCEPT ![p] =
                        Finish([proc[p] EXCEPT !.trace = Append(@, Ev("clear", "registry", FALSE, FALSE))],
                               "ok", "")]))

---------------------------------------------------------------------------
(* remove_all_tasks: one remove_task per ready room *)
remove_all_tasks(p) ==
    \/ /\ proc[p].op = "idle"
       /\ LET q == [Idle EXCEPT !.op = "remove_all_tasks"]
              rooms == ReadyRooms(tasks, job)
          IN  proc' = [proc EXCEPT ![p] =
                 IF rooms = {} THEN Finish(q, "ok", "")
                 ELSE [q EXCEPT !.pc = "remove_task", !.idx = 1,
                                !.subs = Units(rooms, FALSE),
                                !.ran = <<Ran(JC("remove_task", FALSE), rooms)>>]]
       /\ UNCHANGED <<tasks, job>>
    \/ \* a unit is scheduled: remove_task runs from its lookup to its first await
       /\ proc[p].op = "remove_all_tasks"
       /\ proc[p].pc \notin {"idle", "done"}
       /\ \E r \in DOMAIN proc[p].subs :
            /\ proc[p].subs[r].pc = "pending"
            /\ LET g == _get_task(r, TRUE) IN
               proc' = [proc EXCEPT ![p].subs[r] =
                  IF g.err # "" THEN [@ EXCEPT !.pc = "failed"]
                  ELSE [@ EXCEPT !.pc = remove_task_calls(FALSE)[1].m, !.task = g.task]]
       /\ UNCHANGED <<tasks, job>>
    \/ \* a unit's awaited job-level call completes
       /\ proc[p].op = "remove_all_tasks"
       /\ proc[p].pc \notin {"idle", "done"}
       /\ \E r \in DOMAIN proc[p].subs :
            LET u == proc[p].subs[r]
                calls == remove_task_calls(FALSE)
                i == Len(u.did) + 1
            IN  /\ ~Over(u) /\ u.pc # "pending"
                /\ \E o \in {"ok", "JobError"} :
                     IF o # "ok"
                     THEN Commit(St(tasks, job, [proc EXCEPT ![p].subs[r].pc = "failed"]))
                     ELSE \E j2 \in JobEffect(job[u.task], u.pc) :
                          LET jb == [job EXCEPT ![u.task] = j2]
                              u2 == [u EXCEPT !.did = Append(@, calls[i])]
                          IN  IF i < Len(calls)
                              THEN Commit(St(tasks, jb,
                                      [proc EXCEPT ![p].subs[r] = [u2 EXCEPT !.pc = calls[i + 1].m]]))
                              ELSE LET d == DelTask(tasks, r) IN
                                   Commit(St(d.tasks, jb,
                                      [proc EXCEPT ![p].subs[r] =
                                          [u2 EXCEPT !.pc = IF d.err # "" THEN "failed" ELSE "done"]]))
    \/ \* asyncio.wait returns
       /\ proc[p].op = "remove_all_tasks"
       /\ proc[p].pc \notin {"idle", "done"}
       /\ AllDone(proc[p].subs)
       /\ Commit(St(tasks, job, [proc EXCEPT ![p] = Finish(proc[p], "ok", "")]))

---------------------------------------------------------------------------
(* The manager *)

\* The caller takes the result of a finished call; the slot is free again.
Return(p) ==
    /\ proc[p].pc = "done"
    /\ Commit(St(tasks, job, [proc EXCEPT ![p] = Idle]))

Init ==
    /\ tasks = [r \in Rooms |-> None]
    /\ job = [h \in Handles |-> NewJob]
    /\ proc = [p \in Procs |-> Idle]

\* Task settings whose header bundle differs from a new job's.
PlainSettings == {s \in TaskSettings : s.header.user_agent # ""}

\* The settings lists of load_all_tasks: monitor on, recorder off.
BatchSettings == {s \in PlainSettings : s.enable_monitor /\ ~s.enable_recorder}

\* The operations on one room, for a caller that may name the rooms R.
RoomOps(p, R, E) ==
    \/ remove_task(p, R, E)
    \/ start_task(p, R, E)
    \/ stop_task(p, R, E)
    \/ enable_task_monitor(p, R, E)
    \/ disable_task_monitor(p, R, E)
    \/ enable_task_recorder(p, R, E)
    \/ disable_task_recorder(p, R, E)
    \/ update_task_info(p, R, E)
    \/ get_task_data(p, R)
    \/ get_task_param(p, R)
    \/ get_task_metadata(p, R)
    \/ get_task_stream_profile(p, R)
    \/ can_cut_stream(p, R)
    \/ cut_stream(p, R)

\* The operations on every ready job.
BulkOps(p) ==
    \/ start_all_tasks(p)
    \/ stop_all_tasks(p)
    \/ enable_all_task_monitors(p)
    \/ disable_all_task_monitors(p)
    \/ enable_all_task_recorders(p)
    \/ disable_all_task_recorders(p)
    \/ update_all_task_infos(p)

\* One transient error and one that is not.
FewErrors == {"TimeoutError", "JobError"}

\* A caller that makes one call at a time: the next call is made when the last has
\* returned.
FirstProc == CHOOSE p \in Procs : \A q \in Procs : p <= q

SeqNext ==
    \/ add_task(FirstProc, PlainSettings, AttemptTimes, JobErrors)
    \/ load_all_tasks(FirstProc, Batches(BatchSettings, MaxBatch), {SlowAttempt}, FewErrors)
    \/ has_task(FirstProc, Rooms)
    \/ RoomOps(FirstProc, Rooms, {"JobError"})
    \/ BulkOps(FirstProc)
    \/ remove_all_tasks(FirstProc)
    \/ destroy_all_tasks(FirstProc)
    \/ Return(FirstProc)

SeqSpec == Init /\ [][SeqNext]_vars

\* Creation of one room while another caller works: the first call slot creates, and
\* the calls of the other slots run while its attempt is suspended at an await.
\* Every failed attempt is a slow one, so that few fit in the retry budget.
FirstRoom == CHOOSE r \in Rooms : \A x \in Rooms : r <= x

OneRoom == {FirstRoom}

Creator(p) ==
    \/ add_task(p, {s \in PlainSettings : s.room_id \in OneRoom /\ s.enable_monitor},
                {SlowAttempt}, FewErrors)
    \/ Return(p)

Caller(p) ==
    \/ has_task(p, OneRoom)
    \/ RoomOps(p, OneRoom, {"JobError"})
    \/ BulkOps(p)
    \/ remove_all_tasks(p)
    \/ destroy_all_tasks(p)
    \/ Return(p)

\* The creation runs in the first slot; of the other slots one is in use at a time.
Next ==
    \/ Creator(FirstProc)
    \/ \E p \in Procs \ {FirstProc} :
          /\ \A q \in Procs \ {FirstProc, p} : proc[q].op = "idle"
          /\ Caller(p)

Spec == Init /\ [][Next]_vars

---------------------------------------------------------------------------
(* Properties *)

\* The call in slot p has finished, by returning or by raising.
Done(p, op) == proc[p].op = op /\ proc[p].pc = "done"

\* The call in slot p has raised.
Raised(p, op) == Done(p, op) /\ proc[p].res \notin {"ok", "True", "False"}

\* C1: whenever add_task for a room raises, whichever step failed and whatever the
\* error, has_task of that room is false in the state the raise leaves: the step
\* that ends an add_task with an error ends with the room out of the registry.
C1_FailedAddTaskLeavesRoomAbsent ==
    [][\A p \in Procs :
          (/\ proc[p].op = "add_task" /\ proc[p].pc # "done"
           /\ proc'[p].op = "add_task" /\ proc'[p].pc = "done" /\ proc'[p].res # "ok")
          => (~has_task_value(proc[p].room))']_vars

\* add_task has raised the error of enable_monitor, a step after the job became
\* ready, and the room is not registered.
C1_Witness ==
    \E p \in Procs :
        /\ Raised(p, "add_task")
        /\ proc[p].res = "JobError"
        /\ \E i \in DOMAIN proc[p].trace :
              proc[p].trace[i].e = "raise" /\ proc[p].trace[i].m = "enable_monitor"
        /\ ~has_task_value(proc[p].room)

\* The operations that look the room's job up with check_ready = True.
ReadinessGated ==
    {"remove_task", "start_task", "stop_task", "enable_task_monitor",
     "disable_task_monitor", "enable_task_recorder", "disable_task_recorder",
     "update_task_info", "get_task_data", "get_task_param", "get_task_metadata",
     "get_task_stream_profile", "can_cut_stream", "cut_stream"}

\* Slot p makes a readiness-gated call in this step.
GatedCall(p) == proc[p].op = "idle" /\ proc'[p].op \in ReadinessGated

Registered(r) == tasks[r] # None

NotReady(r) == Registered(r) /\ ~job[tasks[r]].ready

RECURSIVE InOrder(_, _)
InOrder(cs, del_after) ==
    IF cs = <<>>
    THEN IF del_after THEN <<Ev("del", "registry", TRUE, FALSE)>> ELSE <<>>
    ELSE <<Ev("call", cs[1].m, TRUE, cs[1].force), Ev("ret", cs[1].m, TRUE, cs[1].force)>>
            \o InOrder(Tail(cs), del_after)

\* tr is a beginning of full, or such a beginning whose last call raised instead of
\* returning.
Follows(tr, full) ==
    /\ Len(tr) <= Len(full)
    /\ \A i \in DOMAIN tr :
          \/ tr[i] = full[i]
          \/ /\ i = Len(tr) /\ tr[i].e = "raise" /\ full[i].e = "ret"
             /\ tr[i].m = full[i].m /\ tr[i].arg = full[i].arg

RemoveOrder ==
    InOrder(<<JC("disable_recorder", TRUE), JC("disable_monitor", FALSE),
              JC("destroy", FALSE)>>, TRUE)

\* C3: remove_task of a registered, ready room calls disable_recorder(force = True),
\* then disable_monitor, then destroy on the job, each after the one before has
\* returned, and deletes the room's entry only after destroy has returned; until
\* then the room is registered with that job.
C3_RemoveTaskOrder ==
    \A p \in Procs :
        (proc[p].op = "remove_task" /\ proc[p].task # None) =>
            LET q == proc[p] IN
            /\ q.trace # <<>>
            /\ Follows(q.trace, RemoveOrder)
            /\ q.trace[Len(q.trace)].e # "del" => tasks[q.room] = q.task
            /\ q.trace[Len(q.trace)].e = "del" => ~has_task_value(q.room)
            /\ (q.pc = "done" /\ q.res = "ok") <=> q.trace = RemoveOrder

\* remove_task has returned, having gone through the whole sequence.
C3_Witness ==
    \E p \in Procs :
        /\ Done(p, "remove_task") /\ proc[p].res = "ok"
        /\ Len(proc[p].trace) = 7
        /\ ~has_task_value(proc[p].room)

StartOrder ==
    InOrder(<<JC("update_info", FALSE), JC("enable_monitor", FALSE),
              JC("enable_recorder", FALSE)>>, FALSE)

\* C4: start_task of a registered, ready room calls update_info, then
\* enable_monitor, then enable_recorder on the job, each after the one before has
\* returned; when the lookup fails, it makes none of the three calls.
C4_StartTaskOrder ==
    \A p \in Procs :
        proc[p].op = "start_task" =>
            LET q == proc[p] IN
            /\ q.task # None =>
                  /\ q.trace # <<>>
                  /\ Follows(q.trace, StartOrder)
                  /\ (q.pc = "done" /\ q.res = "ok") <=> q.trace = StartOrder
            /\ q.task = None =>
                  /\ q.pc = "done" /\ q.res = "NotFoundError" /\ q.trace = <<>>

\* start_task has returned after its three calls, on a job that is then monitored
\* and recording.
C4_Witness ==
    \E p \in Procs :
        /\ Done(p, "start_task") /\ proc[p].res = "ok"
        /\ Len(proc[p].trace) = 6
        /\ job[proc[p].task].monitor /\ job[proc[p].task].recorder

\* The error of the last call that raised in tr ("" when none has).
RECURSIVE LastRaised(_)
LastRaised(tr) ==
    IF tr = <<>> THEN ""
    ELSE IF tr[Len(tr)].e = "raise" THEN tr[Len(tr)].err
    ELSE LastRaised(SubSeq(tr, 1, Len(tr) - 1))

\* The least time that has gone by when the n-th attempt starts: the waits after the
\* attempts before it.
RECURSIVE WaitsBefore(_)
WaitsBefore(n) == IF n <= 1 THEN 0 ELSE WaitsBefore(n - 1) + WaitExponential(n - 1)

\* C5: add_task whose attempts keep failing with transient errors does not retry
\* forever.  No attempt is started once 60 time units have gone by at a failure, each
\* new attempt comes after a wait of at most 10 that adds to the time gone by, and
\* when the budget is spent add_task raises the last transient error itself, not
\* wrapped in another, with the room out of the registry.
C5_RetryBudget ==
    \A p \in Procs :
        proc[p].op = "add_task" =>
            LET q == proc[p] IN
            /\ q.pc = "sleep" =>
                  /\ q.elapsed < StopAfterDelay
                  /\ LastRaised(q.trace) \in TransientErrors
                  /\ ~has_task_value(q.room)
            /\ q.pc \notin {"sleep", "done"} =>
                  /\ q.elapsed < StopAfterDelay + WaitMax
                  /\ q.elapsed >= WaitsBefore(q.attempt)
            /\ (q.pc = "done" /\ LastRaised(q.trace) \in TransientErrors) =>
                  /\ q.res = LastRaised(q.trace)
                  /\ q.elapsed >= StopAfterDelay
                  /\ ~has_task_value(q.room)

\* add_task has given up after three attempts, raising the timeout of the last.
C5_Witness ==
    \E p \in Procs :
        /\ Raised(p, "add_task")
        /\ proc[p].attempt >= 3
        /\ proc[p].res = "TimeoutError"
        /\ proc[p].elapsed >= StopAfterDelay
        /\ ~has_task_value(proc[p].room)

\* C6: when attempts fail with transient errors and then one succeeds within the
\* budget, add_task returns without error and the room is registered with the ready
\* job that the successful attempt built.  A transient error within the budget never
\* ends add_task, and an attempt without a failing step ends it with success.
C6_RetryThenSuccess ==
    \A p \in Procs :
        proc[p].op = "add_task" =>
            LET q == proc[p] IN
            /\ (q.pc = "done" /\ q.res \in TransientErrors) => q.elapsed >= StopAfterDelay
            /\ (q.pc = "done" /\ LastRaised(q.trace) = "") => q.res = "ok"
            /\ (q.pc = "done" /\ q.res = "ok") =>
                  /\ LastRaised(q.trace) = ""
                  /\ has_task_value(q.room)
                  /\ tasks[q.room] = q.task
                  /\ job[q.task].ready
                  /\ job[q.task].user_agent = q.settings.header.user_agent

\* add_task has returned from its third attempt, and the room is registered and ready.
C6_Witness ==
    \E p \in Procs :
        /\ Done(p, "add_task") /\ proc[p].res = "ok"
        /\ proc[p].attempt = 3
        /\ has_task_value(proc[p].room)
        /\ job[tasks[proc[p].room]].ready

\* How many entries of tr are the event e of m.
Count(tr, e, m) == Cardinality({i \in DOMAIN tr : tr[i].e = e /\ tr[i].m = m})

\* C7: when a step of creation fails with an error that is not a timeout, a
\* connection-layer error or a remote-API-request error, that attempt is the last:
\* add_task raises the error at once, the room is deregistered, and no further job is
\* built or set up.
C7_NonRetryableFailsAtOnce ==
    \A p \in Procs :
        proc[p].op = "add_task" =>
            LET q == proc[p] IN
            \A i \in DOMAIN q.trace :
                (q.trace[i].e = "raise" /\ q.trace[i].err \notin TransientErrors) =>
                    /\ q.pc = "done"
                    /\ q.res = q.trace[i].err
                    /\ ~has_task_value(q.room)
                    /\ q.trace[Len(q.trace)] = Ev("del", "registry", TRUE, FALSE)
                    /\ Count(q.trace, "set", "registry") = 1
                    /\ Count(q.trace, "call", "setup") = 1

\* add_task has raised the job's error after a single attempt.
C7_Witness ==
    \E p \in Procs :
        /\ Raised(p, "add_task")
        /\ proc[p].res = "JobError"
        /\ proc[p].attempt = 1
        /\ ~has_task_value(proc[p].room)

\* C8: load_all_tasks over settings of distinct rooms, some of which fail to be
\* created: every entry is attempted, each entry created ends registered and ready,
\* each failure goes to the error sink once, and load_all_tasks raises nothing.
C8_LoadAllTasksIsolation ==
    \A p \in Procs :
        Done(p, "load_all_tasks") =>
            LET q == proc[p] IN
            /\ q.res = "ok"
            /\ Len(q.results) = Len(q.batch)
            /\ q.sink = Cardinality({i \in DOMAIN q.results : q.results[i] # "ok"})
            /\ \A i \in DOMAIN q.results :
                  IF q.results[i] = "ok"
                  THEN /\ has_task_value(q.batch[i].room_id)
                       /\ job[tasks[q.batch[i].room_id]].ready
                  ELSE ~has_task_value(q.batch[i].room_id)

\* load_all_tasks has returned from a list whose first entry failed and whose second
\* was created.
C8_Witness ==
    \E p \in Procs :
        /\ Done(p, "load_all_tasks")
        /\ Len(proc[p].batch) = 2
        /\ proc[p].results[1] # "ok" /\ proc[p].results[2] = "ok"
        /\ proc[p].sink = 1
        /\ job[tasks[proc[p].batch[2].room_id]].ready

BulkOperations ==
    {"destroy_all_tasks", "remove_all_tasks", "start_all_tasks", "stop_all_tasks",
     "enable_all_task_monitors", "disable_all_task_monitors",
     "enable_all_task_recorders", "disable_all_task_recorders", "update_all_task_infos"}

\* C9: a bulk operation called when no registered job is ready, the registry being
\* empty or holding jobs that are not ready, makes no call on any job and returns
\* without error.
C9_BulkNoOpWithoutReadyJobs ==
    [][\A p \in Procs :
          (/\ proc[p].op = "idle" /\ proc'[p].op \in BulkOperations
           /\ ReadyRooms(tasks, job) = {})
          => /\ proc'[p].pc = "done"
             /\ proc'[p].res = "ok"
             /\ proc'[p].ran = <<>>]_vars

\* C10: destroy_all_tasks fans out destroy and nothing else, and when it finishes
\* the registry is empty, whether or not some registered job was not ready and
\* whether or not a destroy failed.
C10_DestroyAllTasksEmptiesRegistry ==
    [][\A p \in Procs :
          (/\ proc[p].pc # "done"
           /\ proc'[p].op = "destroy_all_tasks" /\ proc'[p].pc = "done")
          => /\ \A r \in Rooms : tasks'[r] = None
             /\ \A i \in DOMAIN proc'[p].ran : proc'[p].ran[i].m = "destroy"]_vars

---------------------------------------------------------------------------
(* Header updates *)

\* Settings that ask for neither the monitor nor the recorder.
BareSettings == {s \in PlainSettings : ~s.enable_monitor /\ ~s.enable_recorder}

\* The header of one room is updated by one caller while another creates the room:
\* the update finds the room absent, registered and not yet ready, or ready.
HeaderNext ==
    \/ add_task(FirstProc, {s \in BareSettings : s.room_id \in OneRoom}, {SlowAttempt},
                {"JobError"})
    \/ Return(FirstProc)
    \/ \E p \in Procs \ {FirstProc} :
          /\ \A q \in Procs \ {FirstProc, p} : proc[q].op = "idle"
          /\ \/ apply_task_header_settings(p, OneRoom, HeaderSettings, BOOLEAN,
                                           {"JobError"})
             \/ Return(p)

HeaderSpec == Init /\ [][HeaderNext]_vars

\* One caller creates rooms and updates their headers, every update asking for the
\* session to be refreshed.
SessionNext ==
    \/ add_task(FirstProc, BareSettings, {SlowAttempt}, {"JobError"})
    \/ apply_task_header_settings(FirstProc, Rooms, HeaderSettings, {TRUE}, {"JobError"})
    \/ remove_task(FirstProc, Rooms, {"JobError"})
    \/ Return(FirstProc)

SessionSpec == Init /\ [][SessionNext]_vars

\* The job has the identity of the header bundle hs.
SameIdentity(j, hs) == j.user_agent = hs.user_agent /\ j.cookie = hs.cookie

\* C11: apply_task_header_settings with a bundle whose user_agent and cookie are the
\* job's current ones returns at once, for either value of update_session: no
\* update_session is called and no job and no registry entry changes.
C11_SameHeaderIsNoOp ==
    [][\A p \in Procs :
          (/\ proc[p].op = "idle" /\ proc'[p].op = "apply_task_header_settings"
           /\ Registered(proc'[p].room)
           /\ SameIdentity(job[tasks[proc'[p].room]], proc'[p].settings.header))
          => /\ job' = job /\ tasks' = tasks
             /\ proc'[p].pc = "done" /\ proc'[p].res = "ok"
             /\ proc'[p].trace = <<>>]_vars

\* A call with update_session = True has returned without a call on the job, the
\* bundle being the identity the job has.
C11_Witness ==
    \E p \in Procs :
        /\ Done(p, "apply_task_header_settings") /\ proc[p].res = "ok"
        /\ proc[p].force
        /\ proc[p].trace = <<>>
        /\ Registered(proc[p].room)
        /\ SameIdentity(job[tasks[proc[p].room]], proc[p].settings.header)
        /\ proc[p].settings.header.user_agent # ""

\* C18: after calls of apply_task_header_settings(update_session = True) on a ready
\* job, the last of which returned without error, the identity the job's session was
\* last refreshed with is the job's stored user_agent and cookie.
C18_SessionFollowsIdentity ==
    \A p \in Procs :
        (/\ Done(p, "apply_task_header_settings") /\ proc[p].res = "ok"
         /\ Registered(proc[p].room))
        => LET j == job[tasks[proc[p].room]] IN
           j.session = <<j.user_agent, j.cookie>>

---------------------------------------------------------------------------
(* Creation, bulk steps *)

\* C12: after add_task(settings) has returned without error, the room is registered,
\* its job is ready, its monitor is enabled exactly when settings.enable_monitor is
\* true and its recorder exactly when settings.enable_recorder is true.
C12_CreatedAsSettingsSay ==
    \A p \in Procs :
        (Done(p, "add_task") /\ proc[p].res = "ok") =>
            LET q == proc[p] IN
            /\ Registered(q.room)
            /\ job[tasks[q.room]].ready
            /\ job[tasks[q.room]].monitor = q.settings.enable_monitor
            /\ job[tasks[q.room]].recorder = q.settings.enable_recorder

\* add_task with enable_monitor and without enable_recorder has returned from its
\* first attempt: the room's job is ready and monitored, and does not record.
C12_Witness ==
    \E p \in Procs :
        /\ Done(p, "add_task") /\ proc[p].res = "ok" /\ proc[p].attempt = 1
        /\ proc[p].settings.enable_monitor /\ ~proc[p].settings.enable_recorder
        /\ Registered(proc[p].room)
        /\ job[tasks[proc[p].room]].ready
        /\ job[tasks[proc[p].room]].monitor /\ ~job[tasks[proc[p].room]].recorder

\* The job-level calls of the steps of start_all_tasks and stop_all_tasks(force).
StepOrder(op, force) ==
    IF op = "start_all_tasks"
    THEN <<JC("update_info", FALSE), JC("enable_monitor", FALSE), JC("enable_recorder", FALSE)>>
    ELSE <<JC("disable_recorder", force), JC("disable_monitor", FALSE)>>

\* The unit is at its job-level call.
InCall(u) == u.pc \notin {"pending", "done", "failed"}

\* C13: the steps of start_all_tasks and of stop_all_tasks are separated by barriers.
\* The fan-outs are made in the order of the steps, every job-level call in flight is
\* the call of the step last fanned out, and a step is fanned out only when every
\* unit of the step before is over; the units of one step are free to run in any
\* order.
C13_BulkStepsBarrier ==
    [][\A p \in Procs :
          proc'[p].op \in {"start_all_tasks", "stop_all_tasks"} =>
            LET q == proc'[p]
                order == StepOrder(q.op, q.force)
            IN  /\ Len(q.ran) <= Len(order)
                /\ \A i \in DOMAIN q.ran :
                      q.ran[i].m = order[i].m /\ q.ran[i].force = order[i].force
                /\ \A k \in DOMAIN q.subs :
                      /\ InCall(q.subs[k]) => q.subs[k].pc = q.ran[Len(q.ran)].m
                      /\ q.subs[k].pc = "done" => q.subs[k].did = <<order[Len(q.ran)]>>
                /\ (proc[p].op = q.op /\ Len(q.ran) > Len(proc[p].ran)) =>
                      \A k \in DOMAIN proc[p].subs :
                          proc[p].subs[k].pc \in {"done", "failed"}]_vars

\* start_all_tasks is at its second step with the units of two rooms: the second
\* room's enable_monitor has returned while the first room's has not been made.
C13_Witness ==
    \E p \in Procs :
        /\ proc[p].op = "start_all_tasks"
        /\ Len(proc[p].ran) = 2
        /\ \E a, b \in DOMAIN proc[p].subs :
              /\ a < b
              /\ proc[p].subs[a].pc = "pending"
              /\ proc[p].subs[b].pc = "done"

\* How many steps a bulk operation has.
NumSteps(op) ==
    IF op = "start_all_tasks" THEN Len(StepOrder(op, FALSE))
    ELSE IF op = "stop_all_tasks" THEN Len(StepOrder(op, FALSE))
    ELSE 1

\* C14: in a bulk step, the failure of the call on one job does not reach the
\* caller.  The join waits for the units of the other jobs, and when a unit has failed
\* the operation goes on as without the failure: to its next step, fanned out over
\* every ready job, or to its return without error.
C14_BulkFailureNotSurfaced ==
    [][\A p \in Procs :
          (/\ proc[p].op \in BulkOperations
           /\ proc[p].pc \notin {"idle", "done"}
           /\ proc'[p] # proc[p])
          => LET q == proc[p]
                 ready == {r \in Rooms : Registered(r) /\ job[tasks[r]].ready}
                 joined == \A k \in DOMAIN q.subs : q.subs[k].pc \in {"done", "failed"}
                 failed == \E k \in DOMAIN q.subs : q.subs[k].pc = "failed"
             IN  /\ proc'[p].pc = "done" => joined /\ proc'[p].res = "ok"
                 /\ Len(proc'[p].ran) > Len(q.ran) => joined
                 /\ (joined /\ failed) =>
                       IF Len(q.ran) < NumSteps(q.op) /\ ready # {}
                       THEN /\ proc'[p].pc # "done"
                            /\ Len(proc'[p].ran) = Len(q.ran) + 1
                            /\ proc'[p].ran[Len(q.ran) + 1].over = ready
                            /\ DOMAIN proc'[p].subs = ready
                       ELSE proc'[p].pc = "done" /\ proc'[p].res = "ok"]_vars

\* start_all_tasks has returned without error from its three steps, in the last of
\* which the call on one job failed and the call on the other returned.
C14_Witness ==
    \E p \in Procs :
        /\ Done(p, "start_all_tasks") /\ proc[p].res = "ok"
        /\ Len(proc[p].ran) = 3
        /\ \E a, b \in DOMAIN proc[p].subs :
              proc[p].subs[a].pc = "failed" /\ proc[p].subs[b].pc = "done"

---------------------------------------------------------------------------
(* Registry entries, the order of creation *)

\* The room is registered with a job that is ready.
ReadyIn(r) == Registered(r) /\ job[tasks[r]].ready

\* C15: a job that is registered and ready stops being the room's registered, ready
\* job only by a step of remove_task, remove_all_tasks or destroy_all_tasks; no step
\* of another operation, an add_task for the same room included, removes or replaces
\* its entry.
C15_OnlyRemovalUnregisters ==
    [][\A r \in Rooms :
          (ReadyIn(r) /\ ~ReadyIn(r)') =>
            \E p \in Procs :
                /\ proc'[p] # proc[p]
                /\ proc'[p].op \in {"remove_task", "remove_all_tasks",
                                    "destroy_all_tasks"}]_vars

\* What an attempt of add_task with these settings has in its trace when no step
\* fails.
CreateOrder(settings) ==
    <<Ev("set", "registry", TRUE, FALSE),
      Ev("call", "apply_task_header_settings", TRUE, FALSE),
      Ev("ret", "apply_task_header_settings", TRUE, FALSE),
      Ev("call", "setup", TRUE, FALSE), Ev("ret", "setup", TRUE, FALSE),
      Ev("apply", "output", TRUE, FALSE), Ev("apply", "danmaku", TRUE, FALSE),
      Ev("apply", "recorder", TRUE, FALSE), Ev("apply", "postprocessing", TRUE, FALSE)>>
    \o (IF settings.enable_monitor
        THEN <<Ev("call", "enable_monitor", TRUE, FALSE), Ev("ret", "enable_monitor", TRUE, FALSE)>>
        ELSE <<>>)
    \o (IF settings.enable_recorder
        THEN <<Ev("call", "enable_recorder", TRUE, FALSE), Ev("ret", "enable_recorder", TRUE, FALSE)>>
        ELSE <<>>)

\* tr is the trace of an attempt in flight or succeeded, or of a failed one: steps
\* in order, the last of them raising, and then the room's entry deleted.
Attempted(tr, full) ==
    IF tr = <<>> THEN TRUE
    ELSE IF tr[Len(tr)].e = "del"
    THEN /\ Len(tr) >= 2
         /\ tr[Len(tr) - 1].e = "raise"
         /\ Follows(SubSeq(tr, 1, Len(tr) - 1), full)
    ELSE tr[Len(tr)].e # "raise" /\ Follows(tr, full)

\* C17: every attempt of add_task takes its steps in one order: the job is
\* registered first; the header settings are applied with update_session = False,
\* and update_session is never called; then setup; the output, danmaku, recorder
\* and postprocessing settings after setup has returned; enable_monitor and then
\* enable_recorder after the four bundles.
C17_CreationOrder ==
    \A p \in Procs :
        proc[p].op \in {"add_task", "load_all_tasks"} =>
            LET q == proc[p] IN
            /\ q.op = "add_task" => q.trace # <<>>
            /\ Attempted(q.trace, CreateOrder(q.settings))
            /\ Count(q.trace, "call", "update_session") = 0
            /\ (q.op = "add_task" /\ q.pc = "done" /\ q.res = "ok")
                  => q.trace = CreateOrder(q.settings)

\* add_task asked for the monitor and the recorder and has returned after all of its
\* steps.
C17_Witness ==
    \E p \in Procs :
        /\ Done(p, "add_task") /\ proc[p].res = "ok"
        /\ proc[p].settings.enable_monitor /\ proc[p].settings.enable_recorder
        /\ Len(proc[p].trace) = Len(CreateOrder(proc[p].settings))
        /\ proc[p].trace[Len(proc[p].trace)] = Ev("ret", "enable_recorder", TRUE, FALSE)

\* C20: the job that a failed attempt of add_task deregisters is inert: in the step
\* in which the attempt fails and its entry is deleted, the job has neither its
\* monitor nor its recorder enabled.
C20_DeregisteredJobIsInert ==
    [][\A p \in Procs :
          (/\ proc[p].op \in {"add_task", "load_all_tasks"}
           /\ proc[p].pc \in JobMethods
           /\ proc[p].task # None
           /\ proc'[p].trace # <<>>
           /\ proc'[p].trace[Len(proc'[p].trace)].e = "del"
           /\ proc[p].trace[Len(proc[p].trace)].e # "del")
          => /\ ~job[proc[p].task].monitor
             /\ ~job[proc[p].task].recorder]_vars

---------------------------------------------------------------------------
(* remove_all_tasks *)

\* remove_all_tasks with nothing interleaved: one caller creates rooms, and while a
\* remove_all_tasks of another caller is in flight the creation, which may be
\* suspended with its room registered and not ready, takes no step.
QuietNext ==
    \/ /\ \A p \in Procs : ~(proc[p].op = "remove_all_tasks" /\ proc[p].pc # "done")
       /\ \/ add_task(FirstProc, BareSettings, {SlowAttempt}, {"JobError"})
          \/ Return(FirstProc)
    \/ \E p \in Procs \ {FirstProc} :
          /\ \A q \in Procs \ {FirstProc, p} : proc[q].op = "idle"
          /\ \/ remove_all_tasks(p)
             \/ Return(p)

QuietSpec == Init /\ [][QuietNext]_vars

RemoveCalls ==
    <<JC("disable_recorder", TRUE), JC("disable_monitor", FALSE), JC("destroy", FALSE)>>

\* C16: remove_all_tasks starts one remove_task for each room that is ready when it
\* is called, and for no other room, and waits for all of them.  When it returns,
\* each room whose calls all succeeded is out of the registry after
\* disable_recorder(force = True), disable_monitor and destroy in that order, and a
\* room that was not ready is registered as before, no call made on its job.
C16_RemoveAllTasks ==
    [][\A p \in Procs :
          proc'[p].op = "remove_all_tasks" =>
            LET q == proc'[p]
                ready == {r \in Rooms : ReadyIn(r)}
            IN  /\ proc[p].op = "idle" =>
                      IF ready = {}
                      THEN q.pc = "done" /\ q.res = "ok" /\ q.ran = <<>>
                      ELSE q.pc # "done" /\ DOMAIN q.subs = ready
                /\ (proc[p].op = q.op /\ proc[p].pc # "done") =>
                      /\ \A r \in Rooms \ DOMAIN q.subs :
                            /\ Registered(r) <=> Registered(r)'
                            /\ Registered(r) => job'[tasks'[r]] = job[tasks[r]]
                      /\ \A r \in DOMAIN q.subs :
                            /\ Len(q.subs[r].did) <= Len(RemoveCalls)
                            /\ q.subs[r].did = SubSeq(RemoveCalls, 1, Len(q.subs[r].did))
                            /\ q.subs[r].pc = "done" <=> ~Registered(r)'
                            /\ q.subs[r].pc = "done" => q.subs[r].did = RemoveCalls
                      /\ q.pc = "done" =>
                            /\ q.res = "ok"
                            /\ \A r \in DOMAIN q.subs : q.subs[r].pc \in {"done", "failed"}]_vars

\* remove_all_tasks has returned, the room it found ready removed, while a room that
\* was being created is still registered with its job, which is not ready.
C16_Witness ==
    \E p \in Procs :
        /\ Done(p, "remove_all_tasks") /\ proc[p].res = "ok"
        /\ DOMAIN proc[p].subs # {}
        /\ \A r \in DOMAIN proc[p].subs :
              proc[p].subs[r].pc = "done" /\ ~Registered(r)
        /\ \E r \in Rooms \ DOMAIN proc[p].subs : Registered(r) /\ ~job[tasks[r]].ready

---------------------------------------------------------------------------
(* Concurrent removals *)

Removers == {"remove_task", "remove_all_tasks", "destroy_all_tasks"}

\* Rooms are created with no other call in flight; then the callers run remove_task,
\* remove_all_tasks and destroy_all_tasks, interleaved at their awaits, the job-level
\* calls of remove_task never failing.
RemoversNext ==
    \E p \in Procs :
        \/ /\ \A q \in Procs \ {p} : proc[q].op = "idle"
           /\ add_task(p, BareSettings, {SlowAttempt}, {"JobError"})
        \/ /\ \A q \in Procs : proc[q].op # "add_task"
           /\ \/ remove_task(p, Rooms, {})
              \/ remove_all_tasks(p)
              \/ destroy_all_tasks(p)
        \/ Return(p)

RemoversSpec == Init /\ [][RemoversNext]_vars

\* C19: however remove_task, remove_all_tasks and destroy_all_tasks interleave, no
\* job has destroy called on it more than once, no room is deleted from the
\* registry a second time (KeyError), and a call that fails fails with the
\* not-found error only.
C19_ConcurrentRemovalsAreSafe ==
    /\ \A h \in Handles : job[h].destroyed <= 1
    /\ \A p \in Procs :
          (proc[p].op \in Removers /\ proc[p].pc = "done") =>
              proc[p].res \in {"ok", "NotFoundError"}

\* Two remove_task calls on one room: both were past the lookup before either
\* deleted the room; the one that finished second had destroy called on the job a
\* second time and its `del` raised KeyError.
C19_DoubleRemove ==
    \E p \in Procs :
        /\ Done(p, "remove_task") /\ proc[p].res = "KeyError"
        /\ job[proc[p].task].destroyed = 2
        /\ \A q \in Procs : proc[q].op \in {"idle", "remove_task"}

====
